---------------------------- MODULE Spec2Model ----------------------------
(***************************************************************************)
(* Blog API (src/main.py): the "blogpost" collection, the seeding routine  *)
(* seed_posts, the paginated listing list_posts and the single-post lookup *)
(* get_post.                                                               *)
(*                                                                         *)
(* Every call to the document store (estimated_document_count, insert_one, *)
(* count_documents, find, find_one) is one atomic step; a request handler  *)
(* is the sequence of its store calls, and handlers of different requests  *)
(* interleave between store calls.                                         *)
(***************************************************************************)
EXTENDS Integers, Sequences, FiniteSets, TLC

\* ------------------------------------------------------------------ bounds
\* Largest `total` a seed request asks for.
MaxTotal == 5
\* Seed requests the service receives.
MaxSeeds == 2

\* Request-handling threads that run seed_posts concurrently.
Workers == {"w1", "w2"}
Totals == -1..MaxTotal

\* ------------------------------------------------------ seed_posts: pools
authors ==
  << "Alex Carter", "Jordan Lee", "Taylor Morgan", "Riley Brooks", "Casey Kim",
     "Avery Patel", "Jamie Rivera", "Morgan Blake", "Quinn Parker", "Drew Nguyen" >>

tag_pool ==
  << "tech", "design", "business", "ai", "dev", "life", "product", "growth",
     "marketing", "tutorial" >>

lorem_paras ==
  << "Lorem ipsum dolor sit amet, consectetur adipiscing elit. Vivamus at mi sit amet odio ultrices pulvinar.",
     "Curabitur at sapien sollicitudin, aliquam neque et, lacinia augue. Mauris nec massa quis justo cursus.",
     "Suspendisse potenti. Ut a ligula sed arcu vestibulum dapibus vitae non mi. Donec vel sagittis risus.",
     "Integer vitae dui at sapien volutpat ullamcorper. Praesent feugiat, enim vitae suscipit dapibus, urna massa.",
     "Sed sit amet tortor vitae justo scelerisque rhoncus. Cras at semper elit. Proin pretium, sapien ut bibendum." >>

\* pool[k % len(pool)] of a 0-indexed Python list.
Pick(pool, k) == pool[(k % Len(pool)) + 1]

\* str.zfill(width): zeros on the left up to `width` characters.
RECURSIVE zfill(_, _)
zfill(s, width) == IF Len(s) >= width THEN s ELSE zfill("0" \o s, width)

ZfillWidth == 4

\* (a slip: the index without its padding)
idx_unpadded(i) == ToString(i)

idx(i) == zfill(ToString(i), ZfillWidth)

title(i) == "Sample Blog Post " \o idx(i)

slug(i) == "sample-blog-post-" \o idx(i)

excerpt(i) ==
  "This is a short summary for post " \o idx(i) \o ". " \o Pick(lorem_paras, i)

\* "\n\n".join([...])
content(i) ==
  "# " \o title(i) \o "\n\n" \o
  Pick(lorem_paras, i + 0) \o "\n\n" \o
  Pick(lorem_paras, i + 1) \o "\n\n" \o
  Pick(lorem_paras, i + 2) \o "\n\n" \o
  "## Key Takeaways" \o "\n\n" \o
  "- Insight one about the topic" \o "\n\n" \o
  "- Practical tip for readers" \o "\n\n" \o
  "- Closing thought to inspire action"

\* list({...}): the three picks with duplicates collapsed.
tags(i) == { Pick(tag_pool, i), Pick(tag_pool, i * 3), Pick(tag_pool, i * 7) }

author(i) == Pick(authors, i)

None == "None"

\* The i-th generated document of a run whose timestamp is `now`.
Doc(i, now) ==
  [ title |-> title(i), slug |-> slug(i), excerpt |-> excerpt(i),
    content |-> content(i), author |-> author(i), tags |-> tags(i),
    cover_image |-> None, created_at |-> now, updated_at |-> now ]


\* ------------------------------------------------------------------- state
VARIABLES
  store,     \* db["blogpost"]: the set of stored documents
  clock,     \* the last reading of the wall clock; every reading is later
  pc,        \* pc[w]: where worker w stands in seed_posts
  call,      \* call[w]: the locals of w's current (or last) seed_posts call
  resp,      \* resp[w]: what w's last finished seed_posts call returned
  first,     \* total and existing count of the first seed_posts call
  seeds,     \* seed_posts calls started so far
  reported,  \* sum of the `inserted` values returned so far
  rd,        \* the read request (list_posts or get_post) being served
  out,       \* the response to the last read request served
  walk       \* the client paging through one listing

vars == << store, clock, pc, call, resp, first, seeds, reported, rd, out, walk >>
reads == << rd, out, walk >>

\* A post written by the (out-of-scope) authoring path before the service
\* starts; its tag "ai-generated" contains the pool tag "ai" as a substring.
AuthoredPost ==
  [ _id |-> << 0, 0 >>,
    title |-> "Hello World", slug |-> "hello-world",
    excerpt |-> "Notes on AI tools.", content |-> "# Hello World\n\nWritten by hand.",
    author |-> "Sam Doe", tags |-> { "ai-generated", "Essay" },
    cover_image |-> None, created_at |-> 0, updated_at |-> 0 ]

InitialStores == { {}, { AuthoredPost } }

NoResp == [ status |-> "none" ]
NoCall == [ total |-> 0, existing |-> 0, now |-> 0, oid |-> 0, i |-> 0, inserted |-> 0, added |-> 0 ]
NoFirst == [ total |-> 0, existing |-> 0 ]
Idle == [ pc |-> "idle" ]
NoWalk == [ pc |-> "none" ]

Init ==
  /\ store \in InitialStores
  /\ clock = 0
  /\ pc = [ w \in Workers |-> "idle" ]
  /\ call = [ w \in Workers |-> NoCall ]
  /\ resp = [ w \in Workers |-> NoResp ]
  /\ first = NoFirst
  /\ seeds = 0
  /\ reported = 0
  /\ rd = Idle
  /\ out = NoResp
  /\ walk = NoWalk

\* ------------------------------------------------------------ the store
\* collection.estimated_document_count()
estimated_document_count(coll) == Cardinality(coll)

\* (a slip: the collection without its unique index)
DuplicateKey_noindex(coll, doc) == FALSE

\* The unique index on "slug" (ensure_indexes): an insert whose slug is
\* already stored raises DuplicateKeyError.
DuplicateKey(coll, doc) == \E d \in coll : d.slug = doc.slug

\* (a slip: a replace-or-insert in place of the insert)
insert_one_replacing(coll, doc) == { d \in coll : d.slug # doc.slug } \cup { doc }

\* collection.insert_one(doc): the document is stored unless the unique index
\* rejects it; stored documents are neither replaced nor removed.
insert_one(coll, doc) == IF DuplicateKey(coll, doc) THEN coll ELSE coll \cup { doc }

\* (a slip: the counter bumped outside the try)
CountInsert_always(inserted, raised) == inserted + 1

\* try: insert_one(doc); inserted += 1   except Exception: pass
CountInsert(inserted, raised) == IF raised THEN inserted ELSE inserted + 1

\* -------------------------------------------------------------- seed_posts
\* (a slip: > for >=)
AlreadySatisfied_strict(existing, total) == existing > total

\* `if existing >= total`
AlreadySatisfied(existing, total) == existing >= total

\* (a slip: range(1, total))
LoopDone_short(i, total) == i >= total

\* `for i in range(1, total + 1)` has run out.
LoopDone(i, total) == i > total

AlreadyHas(existing) ==
  [ status |-> "ok",
    message |-> "Database already has " \o ToString(existing) \o " posts" ]

\* Lines 89-140: count the collection; return early when it already holds
\* `total` documents, else read the clock and build the documents 1..total.
SeedBegin(w, total) ==
  /\ pc[w] = "idle"
  /\ seeds < MaxSeeds
  /\ seeds' = seeds + 1
  /\ LET existing == estimated_document_count(store) IN
     /\ first' = IF seeds = 0 THEN [ total |-> total, existing |-> existing ] ELSE first
     /\ IF AlreadySatisfied(existing, total)
          THEN /\ resp' = [ resp EXCEPT ![w] = AlreadyHas(existing) ]
               /\ call' = [ call EXCEPT ![w] =
                              [ total |-> total, existing |-> existing, now |-> clock,
                                oid |-> seeds', i |-> 0, inserted |-> 0, added |-> 0 ] ]
               /\ UNCHANGED << pc, clock >>
          ELSE /\ clock' = clock + 1
               /\ call' = [ call EXCEPT ![w] =
                              [ total |-> total, existing |-> existing, now |-> clock',
                                oid |-> seeds', i |-> 1, inserted |-> 0, added |-> 0 ] ]
               /\ pc' = [ pc EXCEPT ![w] = "insert" ]
               /\ resp' = [ resp EXCEPT ![w] = NoResp ]
  /\ UNCHANGED << store, reported, reads >>

\* Lines 144-150: one pass of `for doc in docs`.
SeedInsert(w) ==
  /\ pc[w] = "insert"
  /\ ~LoopDone(call[w].i, call[w].total)
  /\ LET c == call[w]
         doc == [ _id |-> << c.oid, c.i >> ] @@ Doc(c.i, c.now)
         raised == DuplicateKey(store, doc)
     IN /\ store' = insert_one(store, doc)
        /\ call' = [ call EXCEPT ![w] =
                       [ c EXCEPT !.i = @ + 1,
                                  !.inserted = CountInsert(@, raised),
                                  !.added = @ + Cardinality(store') - Cardinality(store) ] ]
  /\ UNCHANGED << clock, pc, resp, first, seeds, reported, reads >>

\* Line 152: the loop is over; count again and return.
SeedReturn(w) ==
  /\ pc[w] = "insert"
  /\ LoopDone(call[w].i, call[w].total)
  /\ resp' = [ resp EXCEPT ![w] =
                 [ status |-> "ok", inserted |-> call[w].inserted,
                   total |-> estimated_document_count(store) ] ]
  /\ reported' = reported + call[w].inserted
  /\ pc' = [ pc EXCEPT ![w] = "idle" ]
  /\ UNCHANGED << store, clock, call, first, seeds, reads >>

seed_posts(w) ==
  \/ \E total \in Totals : SeedBegin(w, total)
  \/ SeedInsert(w)
  \/ SeedReturn(w)

seeding == << store, clock, pc, call, resp, first, seeds, reported >>

\* ------------------------------------------------- list_posts: the filter
UpperCase == "ABCDEFGHIJKLMNOPQRSTUVWXYZ"
LowerCase == "abcdefghijklmnopqrstuvwxyz"
Letters == 1..Len(UpperCase)
FoldOf == [ c \in { SubSeq(UpperCase, k, k) : k \in Letters } |->
              SubSeq(LowerCase, CHOOSE k \in Letters : SubSeq(UpperCase, k, k) = c,
                                CHOOSE k \in Letters : SubSeq(UpperCase, k, k) = c) ]

\* "$options": "i": letters compare without regard to case.
Fold(c) == IF c \in DOMAIN FoldOf THEN FoldOf[c] ELSE c

\* One pattern character against one text character: "." is the regular
\* expression metacharacter (any character but a line break), any other
\* character of the patterns used here stands for itself.
CharMatches(p, c) == IF p = "." THEN c # "\n" ELSE Fold(p) = Fold(c)

MatchesAt(q, text, off) ==
  \A j \in 1..Len(q) : CharMatches(SubSeq(q, j, j), SubSeq(text, off + j, off + j))

\* {"$regex": q, "$options": "i"} on a string: q, unescaped, is searched in
\* the text as a regular expression.
regex(q, text) == \E off \in 0..(Len(text) - Len(q)) : MatchesAt(q, text, off)

\* The free-text terms and tags of the requests, and the texts a stored
\* document can hold.
Qs == { None, "", "lorem", "LOREM", "ai", "post.0001", "zzz" }
Tags == { None, "", "ai", "AI", "tech" }
Texts ==
  UNION { { title(i), excerpt(i), content(i) } \cup tags(i) : i \in 1..MaxTotal }
  \cup { AuthoredPost.title, AuthoredPost.excerpt, AuthoredPost.content }
  \cup AuthoredPost.tags

\* regex, tabulated once for the terms and texts above.
RegexTable == [ q \in Qs \ { None }, t \in Texts |-> regex(q, t) ]
Regex(q, t) == IF << q, t >> \in DOMAIN RegexTable THEN RegexTable[q, t] ELSE regex(q, t)

\* `if q:` / `if tag:`: None and the empty string are both falsy.
Truthy(x) == x # None /\ x # ""

\* filter_q["$or"]: title, excerpt, content or an element of tags matches.
OrClause(d, q) ==
  \/ Regex(q, d.title)
  \/ Regex(q, d.excerpt)
  \/ Regex(q, d.content)
  \/ \E t \in d.tags : Regex(q, t)

\* (a slip: the tag matched the way q is)
TagClause_regex(d, tag) == \E t \in d.tags : Regex(tag, t)

\* filter_q["tags"] = tag: an element of the array equals tag.
TagClause(d, tag) == tag \in d.tags

\* Lines 168-177: the documents filter_q selects.
Matches(d, q, tag) ==
  /\ Truthy(q) => OrClause(d, q)
  /\ Truthy(tag) => TagClause(d, tag)

\* collection.count_documents(filter_q)
count_documents(coll, q, tag) == Cardinality({ d \in coll : Matches(d, q, tag) })

\* ----------------------------------------------- list_posts: the window
\* The order of two ObjectIds (here: request number, position in the batch).
IdLess(a, b) == a[1] < b[1] \/ (a[1] = b[1] /\ a[2] < b[2])

\* .sort("created_at", -1): newest first.  The order among documents of equal
\* created_at is not specified by the store; each query resolves it by one
\* of TieBreaks, ascending ("asc") or descending ("desc") _id.
TieBreaks == { "asc", "desc" }
Before(a, b, tie) ==
  \/ a.created_at > b.created_at
  \/ /\ a.created_at = b.created_at
     /\ IF tie = "asc" THEN IdLess(a._id, b._id) ELSE IdLess(b._id, a._id)

RECURSIVE Sorted(_, _)
Sorted(S, tie) ==
  IF S = {} THEN << >>
  ELSE LET x == CHOOSE x \in S : \A y \in S \ { x } : Before(x, y, tie)
       IN << x >> \o Sorted(S \ { x }, tie)

\* .skip(n).limit(m) of a cursor.
Window(seq, n, m) == SubSeq(seq, n + 1, IF n + m < Len(seq) THEN n + m ELSE Len(seq))

\* {"content": 0}, and d["_id"] = str(d["_id"]).
Item(d) ==
  [ f \in DOMAIN d \ { "content" } |-> IF f = "_id" THEN ToString(d._id) ELSE d[f] ]

\* Lines 181-192: find(filter_q, {"content": 0}).sort().skip().limit().
find(coll, q, tag, page, limit, tie) ==
  LET hits == Sorted({ d \in coll : Matches(d, q, tag) }, tie)
      win == Window(hits, (page - 1) * limit, limit)
  IN [ k \in 1..Len(win) |-> Item(win[k]) ]

\* (a slip: the division rounded down)
PageCount_floor(total, limit) == IF limit # 0 THEN total \div limit ELSE 1

\* Line 198.
PageCount(total, limit) == IF limit # 0 THEN (total + limit - 1) \div limit ELSE 1

\* Query(1, ge=1) and Query(12, ge=1, le=50)
MinPage == 1
MinLimit == 1
MaxLimit == 50
\* Largest page number a request asks for.
MaxPage == 3
Pages == MinPage..MaxPage
Limits == { MinLimit, 2, MaxLimit }

\* A validated request reaches the handler; the client holds no response
\* while it waits.
ListRequest(page, limit, q, tag) ==
  /\ rd.pc \in { "idle", "done" }
  /\ rd' = [ pc |-> "count", op |-> "list_posts", page |-> page, limit |-> limit,
             q |-> q, tag |-> tag ]
  /\ out' = NoResp

\* A client asks for one page, with parameters among the given ones.
ListBegin(pageSet, limitSet, qSet, tagSet) ==
  /\ \E page \in pageSet, limit \in limitSet, q \in qSet, tag \in tagSet :
       ListRequest(page, limit, q, tag)
  /\ UNCHANGED << seeding, walk >>

\* Line 179; `size` records the collection's size at that moment.
ListCount ==
  /\ rd.pc = "count"
  /\ rd' = [ pc |-> "find", op |-> rd.op, page |-> rd.page, limit |-> rd.limit,
             q |-> rd.q, tag |-> rd.tag,
             total |-> count_documents(store, rd.q, rd.tag),
             size |-> Cardinality(store) ]
  /\ UNCHANGED << seeding, out, walk >>

\* Lines 181-200.
ListFind ==
  /\ rd.pc = "find"
  /\ \E tie \in TieBreaks :
       out' = [ status |-> 200, page |-> rd.page, limit |-> rd.limit,
                total |-> rd.total, pages |-> PageCount(rd.total, rd.limit),
                items |-> find(store, rd.q, rd.tag, rd.page, rd.limit, tie) ]
  /\ rd' = [ rd EXCEPT !.pc = "done" ]
  /\ UNCHANGED << seeding, walk >>

\* ---------------------------------------------------------------- get_post
\* The fields of BlogPostOut (response_model).
BlogPostOut ==
  { "title", "slug", "excerpt", "content", "author", "tags", "cover_image",
    "created_at", "updated_at" }

Slugs ==
  { slug(i) : i \in 1..MaxTotal }
  \cup { AuthoredPost.slug, "no-such-post", "sample-blog-post-0003" }

\* db["blogpost"].find_one({"slug": slug}): a document of that slug, if any.
find_one(coll, s) == { d \in coll : d.slug = s }

\* Lines 205-214.
get_post ==
  /\ rd.pc \in { "idle", "done" }
  /\ \E s \in Slugs :
       /\ rd' = [ pc |-> "done", op |-> "get_post", slug |-> s,
                  size |-> Cardinality(store) ]
       /\ IF find_one(store, s) = {}
            THEN out' = [ status |-> 404, detail |-> "Post not found" ]
            ELSE \E doc \in find_one(store, s) :
                   out' = [ status |-> 200, body |-> [ f \in BlogPostOut |-> doc[f] ] ]
  /\ UNCHANGED << seeding, walk >>

\* ------------------------------------------------- a client reading pages
\* The client asks for page 1 of a listing, then for each next page until
\* the response's `pages` is reached, keeping the slugs it was given.
WalkBegin(limitSet, qSet, tagSet) ==
  /\ walk.pc \in { "none", "end" }
  /\ \E limit \in limitSet, q \in qSet, tag \in tagSet :
       /\ ListRequest(MinPage, limit, q, tag)
       /\ walk' = [ pc |-> "paging", size |-> Cardinality(store), got |-> << >> ]
  /\ UNCHANGED seeding

Received == walk.got \o [ k \in 1..Len(out.items) |-> out.items[k].slug ]

WalkNext ==
  /\ walk.pc = "paging"
  /\ rd.pc = "done"
  /\ rd.page < out.pages
  /\ rd.page < MaxPage
  /\ walk' = [ walk EXCEPT !.got = Received ]
  /\ ListRequest(rd.page + 1, rd.limit, rd.q, rd.tag)
  /\ UNCHANGED seeding

WalkEnd ==
  /\ walk.pc = "paging"
  /\ rd.pc = "done"
  /\ rd.page >= out.pages
  /\ walk' = [ walk EXCEPT !.pc = "end", !.got = Received ]
  /\ UNCHANGED << seeding, rd, out >>

\* ---------------------------------------------------------- specifications
\* Seed requests served concurrently by the workers.
Next == \E w \in Workers : seed_posts(w)

Spec == Init /\ [][Next]_vars

\* One worker seeding; a client reading single posts and the first page.
NextRead ==
  \/ seed_posts("w1")
  \/ get_post
  \/ ListBegin({ MinPage }, { 2 }, { None }, { None })
  \/ ListCount
  \/ ListFind

ReadSpec == Init /\ [][NextRead]_vars

\* One worker seeding; a client asking for any page of any size.
NextPages ==
  \/ seed_posts("w1")
  \/ ListBegin(Pages, Limits, { None }, { None })
  \/ ListCount
  \/ ListFind

PagesSpec == Init /\ [][NextPages]_vars

\* One worker seeding; a client filtering by tag.
NextTags ==
  \/ seed_posts("w1")
  \/ ListBegin({ MinPage }, { MaxLimit }, { None, "ai" }, Tags)
  \/ ListCount
  \/ ListFind

TagsSpec == Init /\ [][NextTags]_vars

\* One worker seeding; a client searching free text.
NextSearch ==
  \/ seed_posts("w1")
  \/ ListBegin({ MinPage }, { MaxLimit }, Qs, { None, "ai" })
  \/ ListCount
  \/ ListFind

SearchSpec == Init /\ [][NextSearch]_vars

\* One worker seeding; a client paging through listings.
NextPaging ==
  \/ seed_posts("w1")
  \/ WalkBegin(Limits, { None, "lorem" }, { None, "ai" })
  \/ ListCount
  \/ ListFind
  \/ WalkNext
  \/ WalkEnd

PagingSpec == Init /\ [][NextPaging]_vars

\* ------------------------------------------------------------- properties
\* The documents the seeding routine stored (the authored post has batch 0).
Seeded == { d \in store : d._id[1] # 0 }

Returned(w) == pc[w] = "idle" /\ resp[w] # NoResp
ReturnedEarly(w) == Returned(w) /\ "message" \in DOMAIN resp[w]
ReturnedCounts(w) == Returned(w) /\ "inserted" \in DOMAIN resp[w]

\* Worker w1 has served seed(T) on an empty store and then seed(T) again,
\* T >= 1, and nothing else.
SeededTwice ==
  /\ seeds = 2
  /\ pc["w1"] = "idle"
  /\ first.existing = 0
  /\ first.total >= 1
  /\ call["w1"].total = first.total

\* C1, as stated: after seed(T) twice in sequence on an empty store, exactly
\* T posts exist and the second call's response carries inserted = 0.
C1_SecondReportsInsertedZero ==
  SeededTwice =>
    /\ Cardinality(store) = first.total
    /\ "inserted" \in DOMAIN resp["w1"]
    /\ resp["w1"].inserted = 0

\* C1, amended: after seed(T) twice in sequence on an empty store, exactly T
\* posts exist; the second call attempts no insert and answers
\* {status: "ok", message: "Database already has T posts"}, a response that
\* has no `inserted` field.
C1_IdempotentSeeding ==
  SeededTwice =>
    /\ Cardinality(store) = first.total
    /\ call["w1"].i = 0
    /\ call["w1"].added = 0
    /\ resp["w1"] = AlreadyHas(first.total)
    /\ "inserted" \notin DOMAIN resp["w1"]

C1_Witness ==
  /\ SeededTwice
  /\ first.total = 3
  /\ { d.slug : d \in store } = { slug(1), slug(2), slug(3) }

\* C2: no two stored posts share a slug, also while seed calls with
\* overlapping index ranges interleave their inserts; of the inserts of one
\* slug exactly one is stored.
C2_UniqueSlug ==
  /\ \A a, b \in store : a.slug = b.slug => a = b
  /\ \A w \in Workers : \A k \in 1..(call[w].i - 1) :
       Cardinality({ d \in store : d.slug = slug(k) }) = 1

\* Both calls have won some inserts and lost some: their inserts interleaved.
C2_Witness ==
  \A w \in Workers :
    /\ call[w].inserted >= 1
    /\ call[w].inserted < call[w].i - 1

\* C3: when seed_posts(total) has returned, the store holds at least total
\* posts; a call that found total or more posts attempted no insert, added
\* nothing and reports the count it found.
C3_SeedPostcondition ==
  \A w \in Workers :
    /\ Returned(w) => Cardinality(store) >= call[w].total
    /\ (Returned(w) /\ call[w].existing >= call[w].total) =>
         /\ call[w].i = 0
         /\ call[w].added = 0
         /\ resp[w] = AlreadyHas(call[w].existing)

\* One call filled a shortfall on top of the authored post, the other found
\* the store already filled.
C3_Witness ==
  /\ AuthoredPost \in store
  /\ \E w, v \in Workers :
       /\ ReturnedCounts(w) /\ resp[w].inserted >= 1
       /\ ReturnedEarly(v) /\ call[v].total >= 1

\* C9: a seed call's `inserted` counts exactly the documents that call added
\* to the store (a rejected insert counts nothing and ends nothing); the
\* returned `inserted` is that number and the returned `total` is the
\* store's count at the return; the `inserted` values of all calls add up to
\* the number of documents added to the store.
RECURSIVE InsertedBy(_)
InsertedBy(W) ==
  IF W = {} THEN 0
  ELSE LET w == CHOOSE w \in W : TRUE IN call[w].inserted + InsertedBy(W \ { w })

InsertsAccounted ==
  /\ \A w \in Workers : call[w].inserted = call[w].added
  /\ \A w \in Workers : ReturnedCounts(w) => resp[w].inserted = call[w].added
  /\ reported + InsertedBy({ w \in Workers : pc[w] = "insert" }) = Cardinality(Seeded)

ReturnReportsCount ==
  \A w \in Workers :
    (pc[w] = "insert" /\ pc'[w] = "idle") =>
      /\ resp'[w].inserted = call[w].added
      /\ resp'[w].total = Cardinality(store')
      /\ store' = store

C9_InsertAccounting == []InsertsAccounted /\ [][ReturnReportsCount]_vars

\* Two interleaved calls have returned, each with wins and with rejections.
C9_Witness ==
  /\ \A w \in Workers :
       /\ ReturnedCounts(w)
       /\ resp[w].inserted >= 1
       /\ resp[w].inserted < call[w].total
  /\ reported = resp["w1"].inserted + resp["w2"].inserted

\* C10: a stored post is never updated or deleted: every document of the
\* store is in the store, field for field, after every step of seed_posts,
\* list_posts and get_post, and a step of list_posts or get_post leaves the
\* store as it is.
PostsKept == \A d \in store : d \in store'
ReadsKeepStore == (rd' # rd \/ out' # out) => store' = store

C10_PostImmutability == [][PostsKept /\ ReadsKeepStore]_vars

\* A second batch has been inserted next to posts of the first, whose slugs
\* it tried again, and a read has been served.
C10_Witness ==
  /\ \E a, b \in Seeded : a.created_at < b.created_at
  /\ seeds = 2
  /\ pc["w1"] = "idle"
  /\ out # NoResp

\* The response to a list_posts (get_post) request is in, and the store has
\* not changed since the request's first store call.
ListDone == rd.pc = "done" /\ rd.op = "list_posts"
GetDone == rd.pc = "done" /\ rd.op = "get_post"
StoreAsRead == Cardinality(store) = rd.size

SlugsOf(items) == { items[k].slug : k \in 1..Len(items) }

NewestFirst(items) ==
  \A k \in 1..(Len(items) - 1) : items[k].created_at >= items[k + 1].created_at

FiveSlugs ==
  { "sample-blog-post-0001", "sample-blog-post-0002", "sample-blog-post-0003",
    "sample-blog-post-0004", "sample-blog-post-0005" }

\* C4, as stated: a client that reads page 1..pages of one listing from an
\* unchanged store is given every matching post exactly once, newest first,
\* also when posts share their created_at.
C4_PaginationComplete ==
  (walk.pc = "end" /\ Cardinality(store) = walk.size) =>
    LET hits == { d \in store : Matches(d, rd.q, rd.tag) } IN
      /\ Len(walk.got) = Cardinality(hits)
      /\ { walk.got[k] : k \in 1..Len(walk.got) } = { d.slug : d \in hits }

\* C5: pages is the ceiling of total / limit for every validated limit, where
\* total is the number of posts the filter matches (0 pages when none does);
\* with posts 0001..0005 stored, page 1 of size 2 has exactly 2 items, newest
\* first, and pages = 3.
C5_PageCount ==
  ListDone =>
    /\ out.limit \in MinLimit..MaxLimit
    /\ out.pages * out.limit >= out.total
    /\ (out.pages - 1) * out.limit < out.total
    /\ (StoreAsRead /\ rd.q = None) =>
         out.total = Cardinality({ d \in store : rd.tag = None \/ rd.tag \in d.tags })
    /\ NewestFirst(out.items)
    /\ ( /\ StoreAsRead
         /\ { d.slug : d \in store } = FiveSlugs
         /\ rd.page = 1 /\ rd.limit = 2 /\ rd.q = None /\ rd.tag = None )
       => (Len(out.items) = 2 /\ out.pages = 3)

C5_Witness ==
  /\ ListDone
  /\ StoreAsRead
  /\ { d.slug : d \in store } = FiveSlugs
  /\ rd.page = 1 /\ rd.limit = 2 /\ rd.q = None /\ rd.tag = None
  /\ out.pages = 3

Contains(q, text) ==
  \E off \in 0..(Len(text) - Len(q)) :
    \A j \in 1..Len(q) : Fold(SubSeq(q, j, j)) = Fold(SubSeq(text, off + j, off + j))

ContainsTable == [ q \in Qs \ { None }, t \in Texts |-> Contains(q, t) ]

Occurs(q, d) ==
  \E t \in { d.title, d.excerpt, d.content } \cup d.tags : ContainsTable[q, t]

\* C7, as stated: a post is matched if and only if q occurs as a
\* case-insensitive substring of its title, excerpt, content or one of its
\* tags, and (when a tag is given too) it has that tag; with neither, every
\* post is matched.
C7_SearchIsSubstring ==
  (rd.pc \in { "find", "done" } /\ rd.op = "list_posts" /\ StoreAsRead) =>
    rd.total = Cardinality({ d \in store :
                              /\ rd.q # None => Occurs(rd.q, d)
                              /\ rd.tag # None => rd.tag \in d.tags })

\* C8: get_post answers 404 exactly when no stored post has the slug, and
\* otherwise with the one post of that slug, all nine fields, content
\* included; with the third post of a batch stored, slug
\* sample-blog-post-0003 gives the title "Sample Blog Post 0003".
C8_SinglePost ==
  GetDone =>
    LET m == { d \in store : d.slug = rd.slug } IN
      /\ Cardinality(m) <= 1
      /\ out.status \in { 200, 404 }
      /\ out.status = 200 =>
           \E d \in m :
             out.body = [ title |-> d.title, slug |-> d.slug, excerpt |-> d.excerpt,
                          content |-> d.content, author |-> d.author, tags |-> d.tags,
                          cover_image |-> d.cover_image, created_at |-> d.created_at,
                          updated_at |-> d.updated_at ]
      /\ StoreAsRead => (out.status = 404 <=> m = {})
      /\ ( /\ StoreAsRead
           /\ rd.slug = "sample-blog-post-0003"
           /\ \E d \in Seeded : d._id[2] = 3 )
         => (out.status = 200 /\ out.body.title = "Sample Blog Post 0003")

C8_Witness ==
  /\ GetDone
  /\ StoreAsRead
  /\ rd.slug = "sample-blog-post-0003"
  /\ { d.slug : d \in store } = FiveSlugs
  /\ out.status = 200
  /\ out.body.content = content(3)

=============================================================================
